---- MODULE Spec2Model ----
(***************************************************************************)
(* A model of conv/hips_convnet_debug.py: the parameter index              *)
(* (WeightsParser), make_batches, the network assembly (make_nn_funs), the *)
(* max-pool layer and the momentum-SGD training loop.                      *)
(*                                                                         *)
(* The module holds five specifications over one set of variables; each    *)
(* leaves the variables of the other components at their idle values.      *)
(*   SpecParser    : direct calls of WeightsParser.add_weights / get       *)
(*   SpecNet       : make_nn_funs' registration loop and predictions       *)
(*   SpecPoolBuild : maxpool_layer.build_weights_dict                      *)
(*   SpecPool      : maxpool_layer.forward_pass                            *)
(*   SpecTrain     : make_batches and the epoch / batch loop of __main__   *)
(***************************************************************************)
EXTENDS Integers, Sequences, FiniteSets, TLC

VARIABLES
    \* ---- WeightsParser (SpecParser)
    idxs_and_shapes,   \* dict: name -> [start, stop, shape]  (the slice and the shape)
    N,                 \* self.N
    calls,             \* history: the add_weights calls made so far, in order
    got,               \* outcome of the last call (returned value or the exception)
    \* ---- make_nn_funs (SpecNet)
    py,                \* interpreter major version (decides what "/" does)
    layer_specs,       \* the layer list: a sequence of layer object ids
    input_shape,       \* the input shape handed to make_nn_funs
    parser,            \* the top-level WeightsParser: [idxs_and_shapes, N]
    layer_parser,      \* layer object id -> its "parser" attribute (or NoParser)
    cur_shape,         \* the shape threaded through the registration loop
    net_pc,            \* position in make_nn_funs / predictions
    net_i,             \* index of the loop over layer_specs
    built,             \* history: N_weights returned by each build_weights_dict
    W_len,             \* length of the flat vector handed to predictions
    cur_units,         \* shape of the activations threaded through predictions
    handed,            \* history: the slice of W_vect handed to each entry
    \* ---- maxpool_layer (SpecPool)
    pool_shape,        \* self.pool_shape
    pool_in_shape,     \* input_shape of build_weights_dict (C, H, W)
    pool_built,        \* outcome of build_weights_dict
    inputs,            \* the input tensor of forward_pass: [shape, data]
    pool_out,          \* outcome of forward_pass
    \* ---- training loop (SpecTrain)
    hyper,             \* num_epochs, N_data, batch_size, momentum, learning_rate, gradient oracle
    pc,                \* position in __main__
    mb_start,          \* make_batches: start
    batch_idxs,        \* make_batches: batches / __main__: batch_idxs
    epoch,             \* loop variable of the epoch loop
    bi,                \* position of the batch loop inside batch_idxs (1-based)
    W,                 \* the weights (one component of the flat vector), a rational
    cur_dir,           \* the momentum buffer, a rational
    updates,           \* history: number of weight updates applied
    reports,           \* history: the print_perf calls: [epoch, W, updates]
    trace              \* history: per update [idxs, g, W_before, dir_before, W_after, dir_after]

parserVars == <<idxs_and_shapes, N, calls, got>>
netVars    == <<py, layer_specs, input_shape, parser, layer_parser, cur_shape,
                net_pc, net_i, built, W_len, cur_units, handed>>
poolVars   == <<pool_shape, pool_in_shape, pool_built, inputs, pool_out>>
trainVars  == <<hyper, pc, mb_start, batch_idxs, epoch, bi, W, cur_dir,
                updates, reports, trace>>
vars       == <<parserVars, netVars, poolVars, trainVars>>

----------------------------------------------------------------------------
(* Generic helpers                                                          *)

RECURSIVE Prod(_)
\* np.prod of a tuple of integers (1 for the empty tuple)
Prod(s) == IF s = <<>> THEN 1 ELSE s[1] * Prod(Tail(s))

RECURSIVE SumSeq(_)
SumSeq(s) == IF s = <<>> THEN 0 ELSE s[1] + SumSeq(Tail(s))

EmptyDict == [x \in {} |-> 0]

\* d[k] = v of a Python dict: a new key is added, an existing key is overwritten
DictSet(d, k, v) == [x \in (DOMAIN d) \cup {k} |-> IF x = k THEN v ELSE d[x]]

\* the cells a[start:stop] of a sequence of length len selects (Python clamps a slice)
SliceCells(start, stop, len) == { c \in 0..(len - 1) : start <= c /\ c < stop }

----------------------------------------------------------------------------
(* WeightsParser                                                            *)

\* Bounds of SpecParser
MaxCalls == 3
MaxRank  == 2
MaxDim   == 2

Names == {"params", "biases"}

ShapesOfRank(r) == [1..r -> 0..MaxDim]
Shapes == UNION { ShapesOfRank(r) : r \in 1..MaxRank }

\* WeightsParser.__init__
NewParser == [idxs_and_shapes |-> EmptyDict, N |-> 0]

\* WeightsParser.add_weights on a parser value p
add_weights(p, name, shape) ==
    LET start == p.N
        stop  == p.N + Prod(shape)
    IN  [idxs_and_shapes |-> DictSet(p.idxs_and_shapes, name,
                                     [start |-> start, stop |-> stop, shape |-> shape]),
         N |-> stop]

\* WeightsParser.get on a vector of length len: the lookup raises KeyError for an
\* unknown name; vect[idxs] clamps the slice to the vector; np.reshape raises
\* ValueError when the number of selected cells is not the product of the shape.
get(p, len, name) ==
    IF name \notin DOMAIN p.idxs_and_shapes
    THEN [status |-> "KeyError"]
    ELSE LET e     == p.idxs_and_shapes[name]
             cells == SliceCells(e.start, e.stop, len)
         IN  IF Cardinality(cells) = Prod(e.shape)
             THEN [status |-> "ok", shape |-> e.shape, cells |-> cells]
             ELSE [status |-> "ValueError"]

ParserIdle ==
    /\ idxs_and_shapes = EmptyDict
    /\ N = 0
    /\ calls = <<>>
    /\ got = [status |-> "none"]

AddWeights ==
    /\ Len(calls) < MaxCalls
    /\ \E name \in Names, shape \in Shapes :
          LET p == add_weights([idxs_and_shapes |-> idxs_and_shapes, N |-> N], name, shape)
          IN  /\ idxs_and_shapes' = p.idxs_and_shapes
              /\ N' = p.N
              /\ calls' = Append(calls, [name |-> name, shape |-> shape])
              /\ got' = [status |-> "returned"]
    /\ UNCHANGED <<netVars, poolVars, trainVars>>

Get ==
    /\ \E name \in Names, len \in 0..(N + 1) :
          got' = get([idxs_and_shapes |-> idxs_and_shapes, N |-> N], len, name)
                   @@ [len |-> len, name |-> name]
    /\ UNCHANGED <<idxs_and_shapes, N, calls>>
    /\ UNCHANGED <<netVars, poolVars, trainVars>>

----------------------------------------------------------------------------
(* Python numbers: an int or a float.  "/" is floor division on two ints    *)
(* under Python 2 and true division (a float) under Python 3; the module    *)
(* imports absolute_import and print_function from __future__, not division.*)

PyInt(v)   == [v |-> v, t |-> "int"]
PyFloat(v) == [v |-> v, t |-> "float"]
NumType(a, b) == IF a.t = "int" /\ b.t = "int" THEN "int" ELSE "float"

PyAdd(a, b) == [v |-> a.v + b.v, t |-> NumType(a, b)]
PySub(a, b) == [v |-> a.v - b.v, t |-> NumType(a, b)]
\* a / b, used only where b divides a (the assertion before it), so the float is exact
PyDiv(a, b, version) ==
    IF version = 2 /\ NumType(a, b) = "int" THEN PyInt(a.v \div b.v) ELSE PyFloat(a.v \div b.v)

Ints(shape)   == [i \in DOMAIN shape |-> PyInt(shape[i])]
Values(shape) == [i \in DOMAIN shape |-> shape[i].v]

----------------------------------------------------------------------------
(* The layers                                                               *)

\* The layer objects a layer list is drawn from: the architecture of __main__
\* (conv, maxpool, tanh, softmax) with a smaller kernel and smaller layers.
LayerObjs ==
    [ conv    |-> [kind |-> "conv", kernel_shape |-> <<2, 2>>, num_filters |-> 1],
      maxpool |-> [kind |-> "maxpool", pool_shape |-> <<2, 2>>],
      tanh    |-> [kind |-> "full", size |-> 2],
      softmax |-> [kind |-> "full", size |-> 2] ]

LayerIds == DOMAIN LayerObjs

NoParser == [idxs_and_shapes |-> EmptyDict, N |-> -1]

\* conv_layer.conv_output_shape
conv_output_shape(A, B) ==
    << PyAdd(PySub(A[1], PyInt(B[1])), PyInt(1)), PyAdd(PySub(A[2], PyInt(B[2])), PyInt(1)) >>

\* conv_layer.build_weights_dict: the layer's own parser, then the output shape
\* (input_shape[1:] of fewer than two entries raises IndexError in conv_output_shape)
conv_build_weights_dict(layer, in_shape) ==
    IF Len(in_shape) < 3
    THEN [status |-> "IndexError"]
    ELSE LET p1 == add_weights(NewParser, "params",
                               <<in_shape[1].v, layer.num_filters>> \o layer.kernel_shape)
             p2 == add_weights(p1, "biases", <<1, layer.num_filters, 1, 1>>)
         IN  [status |-> "ok", N_weights |-> p2.N, parser |-> p2,
              shape |-> <<PyInt(layer.num_filters)>>
                          \o conv_output_shape(SubSeq(in_shape, 2, 3), layer.kernel_shape)]

\* maxpool_layer.build_weights_dict: both assertions, then "/" on each spatial entry
maxpool_build_weights_dict(layer, in_shape, version) ==
    IF Len(in_shape) < 3
    THEN [status |-> "IndexError"]
    ELSE IF \E i \in {1, 2} : in_shape[i + 1].v % layer.pool_shape[i] # 0
    THEN [status |-> "AssertionError"]
    ELSE [status |-> "ok", N_weights |-> 0, parser |-> NoParser,
          shape |-> [i \in DOMAIN in_shape |->
                        IF i = 1 THEN in_shape[i]
                        ELSE IF i \in {2, 3}
                             THEN PyDiv(in_shape[i], PyInt(layer.pool_shape[i - 1]), version)
                             ELSE in_shape[i]]]

\* full_layer.build_weights_dict: np.prod(input_shape, dtype=int) is an int
full_build_weights_dict(layer, in_shape) ==
    LET input_size == Prod(Values(in_shape))
        p1 == add_weights(NewParser, "params", <<input_size, layer.size>>)
        p2 == add_weights(p1, "biases", <<layer.size>>)
    IN  [status |-> "ok", N_weights |-> p2.N, parser |-> p2, shape |-> <<PyInt(layer.size)>>]

build_weights_dict(layer, in_shape, version) ==
    CASE layer.kind = "conv"    -> conv_build_weights_dict(layer, in_shape)
      [] layer.kind = "maxpool" -> maxpool_build_weights_dict(layer, in_shape, version)
      [] layer.kind = "full"    -> full_build_weights_dict(layer, in_shape)

----------------------------------------------------------------------------
(* Tensors: [shape, data], data in row-major (C) order as numpy keeps it;   *)
(* multi-indices and flat indices are 0-based, data is a 1-based sequence.  *)

SetMax(S) == CHOOSE x \in S : \A y \in S : y <= x

RECURSIVE Ravel(_, _)
\* the flat index of multi-index idx in an array of the given shape
Ravel(idx, shape) ==
    IF idx = <<>> THEN 0
    ELSE idx[1] * Prod(Tail(shape)) + Ravel(Tail(idx), Tail(shape))

RECURSIVE Unravel(_, _)
\* the multi-index of flat index k in an array of the given shape
Unravel(k, shape) ==
    IF shape = <<>> THEN <<>>
    ELSE LET below == Prod(Tail(shape))
         IN  <<k \div below>> \o Unravel(k % below, Tail(shape))

\* a tuple without its entry at (0-based) axis / with x put in at axis
RemoveAxis(s, axis) == SubSeq(s, 1, axis) \o SubSeq(s, axis + 2, Len(s))
InsertAxis(s, axis, x) == SubSeq(s, 1, axis) \o <<x>> \o SubSeq(s, axis + 1, Len(s))

\* ndarray.reshape: the same data under another shape of the same size
reshape(t, new_shape) ==
    IF Prod(new_shape) = Prod(t.shape)
    THEN [status |-> "ok", shape |-> new_shape, data |-> t.data]
    ELSE [status |-> "ValueError"]

\* np.max(t, axis=axis)
np_max(t, axis) ==
    LET out_shape == RemoveAxis(t.shape, axis)
    IN  [shape |-> out_shape,
         data  |-> [k \in 1..Prod(out_shape) |->
                       SetMax({ t.data[Ravel(InsertAxis(Unravel(k - 1, out_shape), axis, a),
                                             t.shape) + 1]
                                : a \in 0..(t.shape[axis + 1] - 1) })]]

\* maxpool_layer.forward_pass: new_shape built by the loop over the two spatial axes
maxpool_new_shape(pshape, shape) ==
    SubSeq(shape, 1, 2)
        \o <<shape[3] \div pshape[1], pshape[1]>>
        \o <<shape[4] \div pshape[2], pshape[2]>>

\* (mutant) the two maxima taken over the wrong axes: np.max(np.max(result, axis=4), axis=3)
maxpool_forward_pass_wrong_axes(pshape, t) ==
    IF Len(t.shape) < 4
    THEN [status |-> "IndexError"]
    ELSE LET result == reshape(t, maxpool_new_shape(pshape, t.shape))
         IN  IF result.status # "ok"
             THEN [status |-> result.status]
             ELSE [status |-> "ok"] @@ np_max(np_max(result, 4), 3)

\* maxpool_layer.forward_pass (param_vector is not read)
maxpool_forward_pass(pshape, t) ==
    IF Len(t.shape) < 4
    THEN [status |-> "IndexError"]
    ELSE LET result == reshape(t, maxpool_new_shape(pshape, t.shape))
         IN  IF result.status # "ok"
             THEN [status |-> result.status]
             ELSE [status |-> "ok"] @@ np_max(np_max(result, 3), 4)

\* The shape maxpool_layer.forward_pass returns for inputs of the given shape
maxpool_forward_shape(pshape, shape) ==
    IF Len(shape) < 4
    THEN [status |-> "IndexError"]
    ELSE LET new_shape == maxpool_new_shape(pshape, shape)
         IN  IF Prod(new_shape) # Prod(shape)
             THEN [status |-> "ValueError"]
             ELSE [status |-> "ok", shape |-> RemoveAxis(RemoveAxis(new_shape, 3), 4)]

\* conv_layer.forward_pass, shapes only: both blocks are read from the slice
\* (of pv_len cells) through the layer's own parser, then convolve(mode='valid')
\* over axes 2,3 with the dot over inputs' axis 1 and params' axis 0.
conv_forward_shape(lp, shape, pv_len) ==
    LET params == get(lp, pv_len, "params")
        biases == get(lp, pv_len, "biases")
    IN  IF params.status # "ok" THEN [status |-> params.status]
        ELSE IF biases.status # "ok" THEN [status |-> biases.status]
        ELSE IF \/ Len(shape) # 4
                \/ shape[2] # params.shape[1]
                \/ shape[3] < params.shape[3]
                \/ shape[4] < params.shape[4]
        THEN [status |-> "ValueError"]
        ELSE [status |-> "ok",
              shape |-> <<shape[1], params.shape[2],
                          shape[3] - params.shape[3] + 1, shape[4] - params.shape[4] + 1>>]

\* full_layer.forward_pass, shapes only: inputs of rank > 2 are flattened, then
\* np.dot(inputs, params) + biases and the nonlinearity (which keeps the shape)
full_forward_shape(lp, shape, pv_len) ==
    LET params == get(lp, pv_len, "params")
        biases == get(lp, pv_len, "biases")
        flat   == IF Len(shape) > 2 THEN <<shape[1], Prod(Tail(shape))>> ELSE shape
    IN  IF params.status # "ok" THEN [status |-> params.status]
        ELSE IF biases.status # "ok" THEN [status |-> biases.status]
        ELSE IF Len(flat) # 2 \/ flat[2] # params.shape[1]
        THEN [status |-> "ValueError"]
        ELSE [status |-> "ok", shape |-> <<flat[1], params.shape[2]>>]

forward_shape(layer, lp, shape, pv_len) ==
    CASE layer.kind = "conv"    -> conv_forward_shape(lp, shape, pv_len)
      [] layer.kind = "maxpool" -> maxpool_forward_shape(layer.pool_shape, shape)
      [] layer.kind = "full"    -> full_forward_shape(lp, shape, pv_len)

----------------------------------------------------------------------------
(* make_nn_funs and the predictions function it returns                     *)

\* Bound of SpecNet: the longest layer list
MaxLayers == 4

InputShapes == { <<1, 3, 3>>, <<1, 4, 4>>, <<1, 5, 5>>, <<2, 4, 4>> }

LayerLists == UNION { [1..n -> LayerIds] : n \in 0..MaxLayers }

NetIdle ==
    /\ layer_specs = <<>>
    /\ input_shape = <<>>
    /\ parser = NewParser
    /\ layer_parser = EmptyDict
    /\ cur_shape = <<>>
    /\ net_pc = "idle"
    /\ net_i = 0
    /\ built = <<>>
    /\ W_len = 0
    /\ cur_units = <<>>
    /\ handed = <<>>

\* make_nn_funs is entered: parser = WeightsParser(); cur_shape = input_shape
NetInit ==
    /\ py \in {2, 3}
    /\ layer_specs \in LayerLists
    /\ input_shape \in InputShapes
    /\ parser = NewParser
    /\ layer_parser = [id \in LayerIds |-> NoParser]
    /\ cur_shape = Ints(input_shape)
    /\ net_pc = "build"
    /\ net_i = 1
    /\ built = <<>>
    /\ W_len = 0
    /\ cur_units = <<>>
    /\ handed = <<>>

\* One iteration of "for layer in layer_specs" in make_nn_funs: the layer's
\* build_weights_dict, then the registration under the layer object as key.
BuildLayer ==
    /\ net_pc = "build"
    /\ net_i <= Len(layer_specs)
    /\ LET id == layer_specs[net_i]
           r  == build_weights_dict(LayerObjs[id], cur_shape, py)
       IN  IF r.status = "ok"
           THEN /\ layer_parser' = IF LayerObjs[id].kind = "maxpool" THEN layer_parser
                                   ELSE [layer_parser EXCEPT ![id] = r.parser]
                /\ parser' = add_weights(parser, id, <<r.N_weights>>)
                /\ cur_shape' = r.shape
                /\ built' = Append(built, r.N_weights)
                /\ net_i' = net_i + 1
                /\ UNCHANGED net_pc
           ELSE /\ net_pc' = "build_raised"
                /\ UNCHANGED <<layer_parser, parser, cur_shape, built, net_i>>
    /\ UNCHANGED <<py, layer_specs, input_shape, W_len, cur_units, handed>>
    /\ UNCHANGED <<parserVars, poolVars, trainVars>>

\* make_nn_funs returns parser.N and the closures
Assembled ==
    /\ net_pc = "build"
    /\ net_i > Len(layer_specs)
    /\ net_pc' = "assembled"
    /\ UNCHANGED <<py, layer_specs, input_shape, parser, layer_parser, cur_shape,
                   net_i, built, W_len, cur_units, handed>>
    /\ UNCHANGED <<parserVars, poolVars, trainVars>>

\* predictions(W_vect, inputs) is called: a vector of any length, a batch of
\* inputs of the shape the network was assembled for
PredictCall ==
    /\ net_pc = "assembled"
    /\ \E len \in { parser.N - 1, parser.N, parser.N + 1 } \cap Nat, n \in {1, 2} :
          /\ W_len' = len
          /\ cur_units' = <<n>> \o input_shape
    /\ net_pc' = "predict"
    /\ net_i' = 1
    /\ handed' = <<>>
    /\ UNCHANGED <<py, layer_specs, input_shape, parser, layer_parser, cur_shape, built>>
    /\ UNCHANGED <<parserVars, poolVars, trainVars>>

\* One iteration of "for layer in layer_specs" in predictions
PredictLayer ==
    /\ net_pc = "predict"
    /\ net_i <= Len(layer_specs)
    /\ LET id == layer_specs[net_i]
           cur_weights == get(parser, W_len, id)
       IN  IF cur_weights.status # "ok"
           THEN /\ net_pc' = "predict_raised"
                /\ UNCHANGED <<handed, cur_units, net_i>>
           ELSE LET out == forward_shape(LayerObjs[id], layer_parser[id], cur_units,
                                         Cardinality(cur_weights.cells))
                IN  /\ handed' = Append(handed, cur_weights.cells)
                    /\ IF out.status = "ok"
                       THEN /\ cur_units' = out.shape
                            /\ net_i' = net_i + 1
                            /\ UNCHANGED net_pc
                       ELSE /\ net_pc' = "predict_raised"
                            /\ UNCHANGED <<cur_units, net_i>>
    /\ UNCHANGED <<py, layer_specs, input_shape, parser, layer_parser, cur_shape,
                   built, W_len>>
    /\ UNCHANGED <<parserVars, poolVars, trainVars>>

\* predictions returns cur_units
PredictReturn ==
    /\ net_pc = "predict"
    /\ net_i > Len(layer_specs)
    /\ net_pc' = "returned"
    /\ UNCHANGED <<py, layer_specs, input_shape, parser, layer_parser, cur_shape,
                   net_i, built, W_len, cur_units, handed>>
    /\ UNCHANGED <<parserVars, poolVars, trainVars>>

----------------------------------------------------------------------------
(* maxpool_layer on its own: build_weights_dict and forward_pass            *)

\* Bounds of SpecPoolBuild and SpecPool: the input is (1..MaxImgs, 1..MaxChan,
\* 1..MaxH, 1..MaxW), the pool shape is in (1..MaxPool, 1..MaxPool)
MaxImgs == 2
MaxChan == 2
MaxH    == 4
MaxW    == 2
MaxPool == 2

PoolShapes == (1..MaxPool) \X (1..MaxPool)

\* The input tensors of a shape: a single 1 among zeros at every position, a
\* single -1 among zeros at every position, and three dense patterns
TensorData(size) ==
    { [k \in 1..size |-> IF k = q THEN 1 ELSE 0] : q \in 1..size }
    \cup { [k \in 1..size |-> IF k = q THEN -1 ELSE 0] : q \in 1..size }
    \cup { [k \in 1..size |-> k], [k \in 1..size |-> -k],
           [k \in 1..size |-> ((k * 5) % 7) - 3] }

PoolIdle ==
    /\ pool_shape = <<>>
    /\ pool_in_shape = <<>>
    /\ pool_built = [status |-> "none"]
    /\ inputs = [shape |-> <<>>, data |-> <<>>]
    /\ pool_out = [status |-> "none"]

\* a maxpool_layer(pool_shape) and an input shape (C, H, W)
PoolBuildInit ==
    /\ py \in {2, 3}
    /\ pool_shape \in PoolShapes
    /\ pool_in_shape \in (1..MaxChan) \X (1..MaxH) \X (1..MaxW)
    /\ pool_built = [status |-> "none"]
    /\ inputs = [shape |-> <<>>, data |-> <<>>]
    /\ pool_out = [status |-> "none"]

\* maxpool_layer.build_weights_dict(input_shape)
PoolBuild ==
    /\ pool_built.status = "none"
    /\ pool_built' = maxpool_build_weights_dict([kind |-> "maxpool", pool_shape |-> pool_shape],
                                                Ints(pool_in_shape), py)
    /\ UNCHANGED <<pool_shape, pool_in_shape, inputs, pool_out>>
    /\ UNCHANGED <<parserVars, netVars, trainVars>>

\* a maxpool_layer(pool_shape) and an input tensor (N, C, H, W)
PoolInit ==
    /\ pool_shape \in PoolShapes
    /\ \E shape \in (1..MaxImgs) \X (1..MaxChan) \X (1..MaxH) \X (1..MaxW) :
          \E data \in TensorData(Prod(shape)) :
              inputs = [shape |-> shape, data |-> data]
    /\ pool_in_shape = <<>>
    /\ pool_built = [status |-> "none"]
    /\ pool_out = [status |-> "none"]

\* maxpool_layer.forward_pass(inputs, param_vector)
PoolForward ==
    /\ pool_out.status = "none"
    /\ pool_out' = maxpool_forward_pass(pool_shape, inputs)
    /\ UNCHANGED <<pool_shape, pool_in_shape, pool_built, inputs>>
    /\ UNCHANGED <<parserVars, netVars, trainVars>>

----------------------------------------------------------------------------
(* Exact rational arithmetic for the weights and the momentum buffer: a     *)
(* rational is [n, d] in lowest terms with d > 0.                           *)

Abs(a) == IF a < 0 THEN -a ELSE a

\* Euclid's algorithm (a function, so that its arguments are values)
GCD[a \in Nat, b \in Nat] == IF b = 0 THEN a ELSE GCD[b, a % b]

Rats == [n : Int, d : Nat]

\* (functions, so that their arguments are values)
Rat[n \in Int, d \in Int] ==
    LET g == GCD[Abs(n), Abs(d)]
        sgn == IF d < 0 THEN -1 ELSE 1
    IN  [n |-> sgn * (n \div g), d |-> sgn * (d \div g)]

RInt(k) == [n |-> k, d |-> 1]
RAdd[a \in Rats, b \in Rats] ==
    LET l == (a.d \div GCD[a.d, b.d]) * b.d
    IN  Rat[a.n * (l \div a.d) + b.n * (l \div b.d), l]
RNeg[a \in Rats] == [n |-> -a.n, d |-> a.d]
RSub[a \in Rats, b \in Rats] == RAdd[a, RNeg[b]]
RMul[a \in Rats, b \in Rats] ==
    LET x == Rat[a.n, b.d]
        y == Rat[b.n, a.d]
    IN  [n |-> x.n * y.n, d |-> x.d * y.d]

RPow[a \in Rats, k \in Nat] == IF k = 0 THEN RInt(1) ELSE RMul[a, RPow[a, k - 1]]

----------------------------------------------------------------------------
(* make_batches and the training loop of __main__                           *)

\* Bounds of SpecTrain
MaxEpochs == 2
MaxData   == 3
MaxBatch  == 2

\* The gradient provider (autograd's grad of the loss) is external: a value
\* that depends on the weights' history and on the batch.  Three oracles: the
\* same gradient every time, one that depends on the batch, one that changes
\* with every update.
GradModes == {"const", "batch", "step"}

loss_grad(h, n_updates, idxs) ==
    CASE h.gmode = "const" -> RInt(h.g0)
      [] h.gmode = "batch" -> RInt(h.g0 + idxs.start)
      [] h.gmode = "step"  -> RInt(h.g0 - n_updates)

\* (mutant) start += N_batch + 1: an example is skipped between two batches
mb_next_start_skips(start, N_batch) == start + N_batch + 1

\* (mutant) range(num_epochs + 1): one epoch too many
epoch_range_inclusive(num_epochs) == 0..num_epochs

\* (mutant) the report is made of the initial weights, not of the argument
print_perf_initial_weights(ep, w) == [epoch |-> ep, W |-> hyper.W0]

\* (mutant) cur_dir = momentum * cur_dir + grad_W: the gradient is not damped
update_cur_dir_undamped(momentum, dir, grad_W) == RAdd[RMul[momentum, dir], grad_W]

\* make_batches: the slice appended by one iteration, and the next start
mb_slice(start, N_batch) == [start |-> start, stop |-> start + N_batch]
mb_next_start(start, N_batch) == start + N_batch

\* range(num_epochs)
epoch_range(num_epochs) == 0..(num_epochs - 1)

\* print_perf(epoch, W): what the report is made of
print_perf(ep, w) == [epoch |-> ep, W |-> w]

\* cur_dir = momentum * cur_dir + (1.0 - momentum) * grad_W
update_cur_dir(momentum, dir, grad_W) ==
    RAdd[RMul[momentum, dir], RMul[RSub[RInt(1), momentum], grad_W]]

\* W -= learning_rate * cur_dir
update_W(w, learning_rate, dir) == RSub[w, RMul[learning_rate, dir]]

TrainIdle ==
    /\ hyper = [num_epochs |-> 0]
    /\ pc = "idle"
    /\ mb_start = 0
    /\ batch_idxs = <<>>
    /\ epoch = 0
    /\ bi = 0
    /\ W = RInt(0)
    /\ cur_dir = RInt(0)
    /\ updates = 0
    /\ reports = <<>>
    /\ trace = <<>>

\* The training parameters, the initial weights, and make_batches entered
TrainInit ==
    /\ hyper \in [ num_epochs    : 0..MaxEpochs,
                   N_data        : 0..MaxData,
                   batch_size    : 1..MaxBatch,
                   momentum      : { Rat[1, 2], Rat[1, 3] },
                   learning_rate : { Rat[1, 2], RInt(2) },
                   W0            : { RInt(0), RInt(3) },
                   gmode         : GradModes,
                   g0            : { 1, -2 } ]
    /\ pc = "make_batches"
    /\ mb_start = 0
    /\ batch_idxs = <<>>
    /\ epoch = 0
    /\ bi = 0
    /\ W = hyper.W0
    /\ cur_dir = RInt(0)
    /\ updates = 0
    /\ reports = <<>>
    /\ trace = <<>>

\* make_batches: one iteration of "while start < N_total"
MakeBatchesStep ==
    /\ pc = "make_batches"
    /\ mb_start < hyper.N_data
    /\ batch_idxs' = Append(batch_idxs, mb_slice(mb_start, hyper.batch_size))
    /\ mb_start' = mb_next_start(mb_start, hyper.batch_size)
    /\ UNCHANGED <<hyper, pc, epoch, bi, W, cur_dir, updates, reports, trace>>
    /\ UNCHANGED <<parserVars, netVars, poolVars>>

\* make_batches returns; cur_dir = np.zeros(N_weights); the epoch loop is entered
MakeBatchesReturn ==
    /\ pc = "make_batches"
    /\ ~(mb_start < hyper.N_data)
    /\ cur_dir' = RInt(0)
    /\ epoch' = 0
    /\ pc' = "epoch"
    /\ UNCHANGED <<hyper, mb_start, batch_idxs, bi, W, updates, reports, trace>>
    /\ UNCHANGED <<parserVars, netVars, poolVars>>

\* An epoch begins: print_perf(epoch, W), then the batch loop is entered
EpochReport ==
    /\ pc = "epoch"
    /\ epoch \in epoch_range(hyper.num_epochs)
    /\ reports' = Append(reports, print_perf(epoch, W) @@ [updates |-> updates])
    /\ bi' = 1
    /\ pc' = "batch"
    /\ UNCHANGED <<hyper, mb_start, batch_idxs, epoch, W, cur_dir, updates, trace>>
    /\ UNCHANGED <<parserVars, netVars, poolVars>>

\* One iteration of "for idxs in batch_idxs": gradient, momentum buffer, weights
BatchUpdate ==
    /\ pc = "batch"
    /\ bi <= Len(batch_idxs)
    /\ LET idxs   == batch_idxs[bi]
           grad_W == loss_grad(hyper, updates, idxs)
           dir    == update_cur_dir(hyper.momentum, cur_dir, grad_W)
           w      == update_W(W, hyper.learning_rate, dir)
       IN  /\ cur_dir' = dir
           /\ W' = w
           /\ trace' = Append(trace, [epoch |-> epoch, idxs |-> idxs, grad_W |-> grad_W,
                                      W_before |-> W, dir_before |-> cur_dir,
                                      W_after |-> w, dir_after |-> dir])
    /\ updates' = updates + 1
    /\ bi' = bi + 1
    /\ UNCHANGED <<hyper, pc, mb_start, batch_idxs, epoch, reports>>
    /\ UNCHANGED <<parserVars, netVars, poolVars>>

\* The batch loop is exhausted: the next epoch
EpochEnd ==
    /\ pc = "batch"
    /\ bi > Len(batch_idxs)
    /\ epoch' = epoch + 1
    /\ pc' = "epoch"
    /\ UNCHANGED <<hyper, mb_start, batch_idxs, bi, W, cur_dir, updates, reports, trace>>
    /\ UNCHANGED <<parserVars, netVars, poolVars>>

\* range(num_epochs) is exhausted: the program ends
TrainDone ==
    /\ pc = "epoch"
    /\ epoch \notin epoch_range(hyper.num_epochs)
    /\ pc' = "done"
    /\ UNCHANGED <<hyper, mb_start, batch_idxs, epoch, bi, W, cur_dir, updates, reports, trace>>
    /\ UNCHANGED <<parserVars, netVars, poolVars>>

----------------------------------------------------------------------------------------------------------------------------------------
(* The specifications                                                       *)

ParserInit == ParserIdle /\ py = 3 /\ NetIdle /\ PoolIdle /\ TrainIdle
ParserNext == AddWeights \/ Get
SpecParser == ParserInit /\ [][ParserNext]_vars

NetStart == NetInit /\ ParserIdle /\ PoolIdle /\ TrainIdle
NetNext == BuildLayer \/ Assembled \/ PredictCall \/ PredictLayer \/ PredictReturn
SpecNet == NetStart /\ [][NetNext]_vars

PoolBuildStart == PoolBuildInit /\ ParserIdle /\ NetIdle /\ TrainIdle
PoolBuildNext == PoolBuild
SpecPoolBuild == PoolBuildStart /\ [][PoolBuildNext]_vars

PoolStart == PoolInit /\ py = 3 /\ ParserIdle /\ NetIdle /\ TrainIdle
PoolNext == PoolForward
SpecPool == PoolStart /\ [][PoolNext]_vars

TrainStart == TrainInit /\ py = 3 /\ ParserIdle /\ NetIdle /\ PoolIdle
TrainNext ==
    \/ MakeBatchesStep \/ MakeBatchesReturn
    \/ EpochReport \/ BatchUpdate \/ EpochEnd \/ TrainDone
\* The program is one sequential thread that is never suspended: whenever a
\* statement can run, one does.
SpecTrain == TrainStart /\ [][TrainNext]_vars /\ WF_vars(TrainNext)

----------------------------------------------------------------------------
(* The claims about WeightsParser (SpecParser)                              *)

Blocks == DOMAIN idxs_and_shapes
BlockCells(a) == idxs_and_shapes[a].start .. (idxs_and_shapes[a].stop - 1)

RECURSIVE SumOfSizes(_)
SumOfSizes(S) ==
    IF S = {} THEN 0
    ELSE LET a == CHOOSE x \in S : TRUE
         IN  Prod(idxs_and_shapes[a].shape) + SumOfSizes(S \ {a})

\* position of the first add_weights call that names a
FirstCall(a) == CHOOSE i \in 1..Len(calls) :
                    calls[i].name = a /\ \A j \in 1..(i - 1) : calls[j].name # a

RangesTileVector ==
    /\ \A a, b \in Blocks : a # b => BlockCells(a) \cap BlockCells(b) = {}
    /\ UNION { BlockCells(a) : a \in Blocks } = 0..(N - 1)
    /\ N = SumOfSizes(Blocks)
    /\ \A a, b \in Blocks :
          FirstCall(a) < FirstCall(b) => idxs_and_shapes[a].stop <= idxs_and_shapes[b].start
    /\ \A a \in Blocks :
          LET r == get([idxs_and_shapes |-> idxs_and_shapes, N |-> N], N, a)
          IN  r.status = "ok" /\ r.shape = idxs_and_shapes[a].shape

\* C1: after any sequence of add_weights calls on a fresh index the registered
\* ranges are pairwise disjoint, contiguous, in declaration order, cover exactly
\* [0, N) with N the sum of the blocks' sizes, and get on a vector of length N
\* returns every block in its registered shape.
C1_RangesTileVector == RangesTileVector

\* The same statement for call sequences that never repeat a name (holds).
C1_HoldsForDistinctNames ==
    (\A i, j \in 1..Len(calls) : i # j => calls[i].name # calls[j].name) => RangesTileVector

\* C2: add_weights under a name that is already registered fails: it returns
\* nothing, leaves every registered range and shape as it was, and leaves N
\* unchanged.
C2_DuplicateAddFails ==
    [][ (calls' # calls /\ calls'[Len(calls')].name \in DOMAIN idxs_and_shapes)
          => /\ got'.status # "returned"
             /\ idxs_and_shapes' = idxs_and_shapes
             /\ N' = N ]_vars

----------------------------------------------------------------------------
(* The claims about make_nn_funs (SpecNet)                                  *)

\* C3: a flat vector whose length is not the total registered size is fatal:
\* neither the top-level get (a slice handed to a layer) nor predictions ever
\* returns a result for it.
C3_LengthMismatchIsFatal ==
    /\ net_pc = "returned" => W_len = parser.N
    /\ (net_pc \in {"predict", "predict_raised", "returned"} /\ handed # <<>>)
          => W_len = parser.N

\* C6: every entry of the layer list is registered under its own key, the total
\* is the sum of the entries' weight counts, and the slices predictions hands to
\* the entries are pairwise disjoint and cover the whole vector.
C6_DistinctKeys ==
    /\ net_pc = "assembled" =>
          /\ parser.N = SumSeq(built)
          /\ Cardinality(DOMAIN parser.idxs_and_shapes) = Len(layer_specs)
    /\ (net_pc = "returned" /\ W_len = parser.N) =>
          /\ \A i, j \in 1..Len(handed) : i # j => handed[i] \cap handed[j] = {}
          /\ UNION { handed[i] : i \in 1..Len(handed) } = 0..(W_len - 1)

\* The total is the sum of the weight counts, whatever the layer list (holds).
C6_TotalIsSum == net_pc = "assembled" => parser.N = SumSeq(built)

----------------------------------------------------------------------------
(* The claims about maxpool_layer (SpecPoolBuild, SpecPool)                 *)

\* C4: build_weights_dict fails with an assertion when a pool dimension does not
\* divide the input's; otherwise it returns 0 weights and the shape
\* (C, H div ph, W div pw), whose spatial entries are integers.
C4_BuildWeightsDict ==
    pool_built.status # "none" =>
        IF \/ pool_in_shape[2] % pool_shape[1] # 0
           \/ pool_in_shape[3] % pool_shape[2] # 0
        THEN pool_built.status = "AssertionError"
        ELSE /\ pool_built.status = "ok"
             /\ pool_built.N_weights = 0
             /\ pool_built.shape = << PyInt(pool_in_shape[1]),
                                      PyInt(pool_in_shape[2] \div pool_shape[1]),
                                      PyInt(pool_in_shape[3] \div pool_shape[2]) >>

\* The same statement about the entries' values alone (holds).
C4_ValuesOnly ==
    pool_built.status # "none" =>
        IF \/ pool_in_shape[2] % pool_shape[1] # 0
           \/ pool_in_shape[3] % pool_shape[2] # 0
        THEN pool_built.status = "AssertionError"
        ELSE /\ pool_built.status = "ok"
             /\ pool_built.N_weights = 0
             /\ Values(pool_built.shape) = << pool_in_shape[1],
                                              pool_in_shape[2] \div pool_shape[1],
                                              pool_in_shape[3] \div pool_shape[2] >>

\* C5: for an input (N, C, H, W) and a pool shape (ph, pw) that divides (H, W),
\* forward_pass returns shape (N, C, H/ph, W/pw), output[n,c,i,j] is the maximum
\* of the input over rows i*ph .. i*ph+ph-1 and columns j*pw .. j*pw+pw-1 of
\* image (n,c), and every input element lies in exactly one tile.
C5_MaxPoolForward ==
    LET n_ == inputs.shape[1]
        c_ == inputs.shape[2]
        h  == inputs.shape[3]
        w  == inputs.shape[4]
        ph == pool_shape[1]
        pw == pool_shape[2]
        oh == h \div ph
        ow == w \div pw
    IN  (pool_out.status # "none" /\ h % ph = 0 /\ w % pw = 0) =>
          /\ pool_out.status = "ok"
          /\ pool_out.shape = <<n_, c_, oh, ow>>
          /\ Len(pool_out.data) = n_ * c_ * oh * ow
          /\ \A n \in 0..(n_ - 1), c \in 0..(c_ - 1), i \in 0..(oh - 1), j \in 0..(ow - 1) :
                pool_out.data[((n * c_ + c) * oh + i) * ow + j + 1]
                  = SetMax({ inputs.data[((n * c_ + c) * h + i * ph + a) * w + j * pw + b + 1]
                             : a \in 0..(ph - 1), b \in 0..(pw - 1) })
          /\ \A r \in 0..(h - 1), q \in 0..(w - 1) :
                Cardinality({ t \in (0..(oh - 1)) \X (0..(ow - 1)) :
                                /\ t[1] * ph <= r /\ r < t[1] * ph + ph
                                /\ t[2] * pw <= q /\ q < t[2] * pw + pw }) = 1

C5_Witness ==
    /\ pool_out.status = "ok"
    /\ inputs.shape = <<2, 2, 4, 2>>
    /\ pool_shape = <<2, 2>>
    /\ pool_out.shape = <<2, 2, 2, 1>>
    /\ \E k \in 1..Len(pool_out.data) : pool_out.data[k] = 1
    /\ \E k \in 1..Len(pool_out.data) : pool_out.data[k] = 0

----------------------------------------------------------------------------
(* The claims about make_batches and the training loop (SpecTrain)          *)

\* ceil(N_data / batch_size): the least c with c * batch_size >= N_data
NumBatches ==
    CHOOSE c \in 0..hyper.N_data :
        /\ c * hyper.batch_size >= hyper.N_data
        /\ c = 0 \/ (c - 1) * hyper.batch_size < hyper.N_data

\* the weights and the momentum buffer as the k-th update left them
WeightsAfter(k) == IF k = 0 THEN hyper.W0 ELSE trace[k].W_after
DirAfter(k)     == IF k = 0 THEN RInt(0) ELSE trace[k].dir_after

\* C7: in every epoch the report is made before any update of that epoch, from
\* the weights as they stand: the report of epoch e is made of the weights after
\* exactly e * (number of batches) updates (epoch 0: the initial weights), and
\* the weights the last epoch's updates produce are never reported.
C7_ReportBeforeUpdates ==
    /\ \A i \in 1..Len(reports) :
          /\ reports[i].epoch = i - 1
          /\ reports[i].updates = (i - 1) * NumBatches
          /\ reports[i].W = WeightsAfter((i - 1) * NumBatches)
    /\ \A k \in 1..Len(trace) :
          /\ Len(reports) > trace[k].epoch
          /\ reports[trace[k].epoch + 1].updates < k
    /\ (pc = "done" /\ updates > 0) =>
          \A i \in 1..Len(reports) : reports[i].updates < updates

C7_Witness ==
    /\ pc = "done"
    /\ Len(reports) = 2
    /\ NumBatches = 2
    /\ reports[2].W # reports[1].W
    /\ W # reports[2].W

TrainingRunComplete ==
    /\ Len(reports) = hyper.num_epochs
    /\ updates = hyper.num_epochs * NumBatches
    /\ Len(trace) = updates
    /\ \A k \in 1..Len(trace) :
          /\ trace[k].epoch = (k - 1) \div NumBatches
          /\ trace[k].idxs.start = ((k - 1) % NumBatches) * hyper.batch_size
          /\ trace[k].idxs.stop = trace[k].idxs.start + hyper.batch_size
          /\ trace[k].W_before = WeightsAfter(k - 1)
          /\ trace[k].dir_before = DirAfter(k - 1)
    /\ W = WeightsAfter(updates)
    /\ cur_dir = DirAfter(updates)

\* C8: the loop ends, after exactly num_epochs reports and num_epochs * (number
\* of batches) updates; in every epoch the batches are applied in ascending
\* slice order, each update starting from the weights and the momentum buffer
\* the previous update left.
C8_ExactlyNumEpochs ==
    /\ <>(pc = "done")
    /\ [](IF pc = "done" THEN TrainingRunComplete ELSE TRUE)

C8_Witness ==
    /\ pc = "done"
    /\ hyper.num_epochs = 2
    /\ updates = 4
    /\ trace[3].idxs = trace[1].idxs
    /\ trace[3].W_before = trace[2].W_after

RECURSIVE SumOneMinusPow(_, _)
\* sum over i = 1..k of (1 - m^i)
SumOneMinusPow(m, k) ==
    IF k = 0 THEN RInt(0)
    ELSE RAdd[SumOneMinusPow(m, k - 1), RSub[RInt(1), RPow[m, k]]]

\* C9: with a constant gradient g and v0 = 0, after k updates the momentum
\* buffer is g * (1 - m^k) and the weights are W0 - lr * g * sum_{i=1..k} (1 - m^i).
C9_MomentumClosedForm ==
    hyper.gmode = "const" =>
        /\ cur_dir = RMul[RInt(hyper.g0), RSub[RInt(1), RPow[hyper.momentum, updates]]]
        /\ W = RSub[hyper.W0,
                    RMul[RMul[hyper.learning_rate, RInt(hyper.g0)],
                         SumOneMinusPow(hyper.momentum, updates)]]

C9_Witness ==
    /\ hyper.gmode = "const"
    /\ hyper.momentum = Rat[1, 3]
    /\ updates = 4
    /\ cur_dir = Rat[80, 81]

BatchCells(i) == SliceCells(batch_idxs[i].start, batch_idxs[i].stop, hyper.N_data)

BatchesPartition ==
    LET count == Len(batch_idxs)
    IN  /\ count = NumBatches
        /\ \A i \in 1..count :
              /\ batch_idxs[i].start = (i - 1) * hyper.batch_size
              /\ batch_idxs[i].stop = batch_idxs[i].start + hyper.batch_size
        /\ \A i \in 1..(count - 1) : batch_idxs[i].stop = batch_idxs[i + 1].start
        /\ \A i, j \in 1..count : i # j => BatchCells(i) \cap BatchCells(j) = {}
        /\ \A x \in 0..(hyper.N_data - 1) :
              Cardinality({ i \in 1..count : x \in BatchCells(i) }) = 1
        /\ \A i \in 1..(count - 1) : Cardinality(BatchCells(i)) = hyper.batch_size
        /\ count > 0 =>
              /\ Cardinality(BatchCells(count)) = hyper.N_data - (count - 1) * hyper.batch_size
              /\ Cardinality(BatchCells(count)) >= 1
        /\ hyper.N_data = 0 => count = 0

\* C10: make_batches(N_total, N_batch), N_batch >= 1, returns, with
\* ceil(N_total / N_batch) slices in ascending order, the i-th starting at
\* i * N_batch; on N_total examples they are contiguous and disjoint, every
\* example is in exactly one, all select N_batch examples but possibly the last,
\* which selects the rest (at least 1); N_total = 0 gives no batch.
C10_MakeBatches ==
    /\ <>(pc # "make_batches")
    /\ [](IF pc # "make_batches" THEN BatchesPartition ELSE TRUE)

C10_Witness ==
    /\ pc = "epoch"
    /\ hyper.N_data = 3
    /\ hyper.batch_size = 2
    /\ Len(batch_idxs) = 2
    /\ BatchCells(2) = {2}

====
